---------------------------- MODULE Spec2Model ----------------------------
(***************************************************************************)
(* A model of the MHT-CET assistant (src/app.py) and of the scraper that   *)
(* builds its dataset (src/scraper.py).                                    *)
(*                                                                         *)
(* Percentiles are fixed-point integers holding Scale = 10^4 units per     *)
(* percentile point, the precision round(.., 4) keeps.  Text is a TLA+     *)
(* string, read character by character with Len, SubSeq and \o.            *)
(***************************************************************************)
EXTENDS Integers, Sequences, FiniteSets, TLC

VARIABLES
    rtp, rtpPrev,        \* the last two calls of rank_to_percentile
    pac, pacPrev,        \* the last two calls of predict_admission_chance
    df_colleges,         \* MHTCETAssistant.df_colleges, the in-memory table
    resp,                \* the payload of the last serving request
    session,             \* session['last_suggestion'] of the one client
    chat,                \* the POST /chat request and its event stream
    feedback,            \* feedback_log.csv and the POST /feedback requests
    std,                 \* the last call of _standardize_branch_name
    file,                \* mht_cet_data.json on disk
    pc,                  \* where MHTCETScraper.run stands
    src_i,               \* index of the next live source of scrape_live_data
    all_data,            \* scrape_live_data's accumulator, then run's data
    attempts,            \* per live source attempted so far: what happened
    mock,                \* whether run invoked generate_mock_data
    ret                  \* what the last scraper operation returned

vars == <<rtp, rtpPrev, pac, pacPrev, df_colleges, resp, session, chat, feedback, std,
          file, pc, src_i, all_data, attempts, mock, ret>>

estimatorVars == <<rtp, rtpPrev, pac, pacPrev, std>>
serveVars == <<df_colleges, resp, session, chat>>
logVars == <<feedback>>
scraperVars == <<file, pc, src_i, all_data, attempts, mock, ret>>

-----------------------------------------------------------------------------
(* Bounds of the model *)

MaxRank == 6     \* small ranks tried against small pools
MaxPool == 4     \* small candidate pools
MaxRows == 3     \* rows of the in-memory table
MaxRecs == 3     \* records handed to save_data directly
MaxChunks == 3   \* chunks the completion service sends in one stream
MaxFeedback == 2 \* POST /feedback requests served, possibly at once

(* Program constants *)

Scale == 10000           \* round(.., 4): four decimals
DefaultTotal == 350000   \* total_candidates
DefaultLimit == 7        \* limit

-----------------------------------------------------------------------------
(* Text *)

Upper == "ABCDEFGHIJKLMNOPQRSTUVWXYZ"
Lowers == "abcdefghijklmnopqrstuvwxyz"
Digits == "0123456789"
\* The characters the model's texts use, in code point order.
Ascii == " &'(),-./" \o Digits \o Upper \o Lowers

Char(s, i) == SubSeq(s, i, i)
CharsOf(s) == {Char(s, i) : i \in 1..Len(s)}
IndexIn(c, alphabet) == CHOOSE i \in 1..Len(alphabet) : Char(alphabet, i) = c

\* ord(c), as far as comparisons need it
Ord == [c \in CharsOf(Ascii) |-> IndexIn(c, Ascii)]
ToLower == [c \in CharsOf(Ascii) |->
               IF c \in CharsOf(Upper) THEN Char(Lowers, IndexIn(c, Upper)) ELSE c]
ToUpper == [c \in CharsOf(Ascii) |->
               IF c \in CharsOf(Lowers) THEN Char(Upper, IndexIn(c, Lowers)) ELSE c]
Alpha == CharsOf(Upper) \cup CharsOf(Lowers)

IsAlpha(c) == c \in Alpha
IsDigit(c) == c \in CharsOf(Digits)
LowerChar(c) == ToLower[c]
UpperChar(c) == ToUpper[c]

RECURSIVE MapChars(_, _, _)
\* str.lower() when up = FALSE, str.upper() when up = TRUE
MapChars(s, i, up) ==
    IF i > Len(s) THEN ""
    ELSE (IF up THEN UpperChar(Char(s, i)) ELSE LowerChar(Char(s, i)))
         \o MapChars(s, i + 1, up)

str_lower(s) == MapChars(s, 1, FALSE)
str_upper(s) == MapChars(s, 1, TRUE)

RECURSIVE TitleFrom(_, _)
\* str.title(): a letter after a non-letter is upper-cased, any other lowered
TitleFrom(s, i) ==
    IF i > Len(s) THEN ""
    ELSE (IF i = 1 \/ ~IsAlpha(Char(s, i - 1))
          THEN UpperChar(Char(s, i))
          ELSE LowerChar(Char(s, i))) \o TitleFrom(s, i + 1)

str_title(s) == TitleFrom(s, 1)

\* Python's `k in s`
str_in(k, s) ==
    \/ Len(k) = 0
    \/ \E i \in 1..(Len(s) - Len(k) + 1) : SubSeq(s, i, i + Len(k) - 1) = k

RECURSIVE StrLessFrom(_, _, _)
\* Python's s < t from position i on, by code point
StrLessFrom(s, t, i) ==
    IF i > Len(t) THEN FALSE
    ELSE IF i > Len(s) THEN TRUE
    ELSE LET a == Ord[Char(s, i)]
             b == Ord[Char(t, i)]
         IN  IF a # b THEN a < b ELSE StrLessFrom(s, t, i + 1)

str_lt(s, t) == StrLessFrom(s, t, 1)

-----------------------------------------------------------------------------
(* Numbers *)

Max(a, b) == IF a >= b THEN a ELSE b
Min(a, b) == IF a <= b THEN a ELSE b

RECURSIVE LongDiv(_, _, _, _)
\* k more decimal digits of r/d appended to q; the pair <<quotient, remainder>>
LongDiv(q, r, d, k) ==
    IF k = 0 THEN <<q, r>>
    ELSE LongDiv(q * 10 + ((r * 10) \div d), (r * 10) % d, d, k - 1)

\* round(n/d, 4) for n >= 0, d > 0, in units of 1/Scale; ties go to even
\* as Python's round does
Round4(n, d) ==
    LET qr == LongDiv(n \div d, n % d, d, 4)
        q == qr[1]
        r == qr[2]
    IN  IF 2 * r > d THEN q + 1
        ELSE IF 2 * r = d THEN q + (q % 2)
        ELSE q

rank_to_percentile_no_complement(rank, total_candidates) ==
    IF rank <= 0 THEN 100 * Scale
    ELSE LET n == rank * 100
             hi == IF n > 100 * total_candidates THEN 100 * total_candidates ELSE n
             lo == IF hi < 0 THEN 0 ELSE hi
         IN  Round4(lo, total_candidates)

\* percentile = (1 - rank/total) * 100 as the exact fraction n/total,
\* max(0, min(100, percentile)), then round(.., 4)
rank_to_percentile(rank, total_candidates) ==
    IF rank <= 0 THEN 100 * Scale
    ELSE LET n == (total_candidates - rank) * 100
             hi == IF n > 100 * total_candidates THEN 100 * total_candidates ELSE n
             lo == IF hi < 0 THEN 0 ELSE hi
         IN  Round4(lo, total_candidates)

Labels == <<"Unlikely", "Low", "Medium (Borderline)", "High", "Very High">>

predict_admission_chance_swapped(user_percentile, cutoff_percentile) ==
    LET difference == user_percentile - cutoff_percentile
    IN  IF difference >= Scale \div 2 THEN "High"
        ELSE IF difference >= 2 * Scale THEN "Very High"
        ELSE IF 4 * difference >= -3 * Scale THEN "Medium (Borderline)"
        ELSE IF 2 * difference >= -5 * Scale THEN "Low"
        ELSE "Unlikely"

\* thresholds 2, 0.5, -0.75, -2.5 in fixed point
predict_admission_chance(user_percentile, cutoff_percentile) ==
    LET difference == user_percentile - cutoff_percentile
    IN  IF difference >= 2 * Scale THEN "Very High"
        ELSE IF 2 * difference >= Scale THEN "High"
        ELSE IF 4 * difference >= -3 * Scale THEN "Medium (Borderline)"
        ELSE IF 2 * difference >= -5 * Scale THEN "Low"
        ELSE "Unlikely"

-----------------------------------------------------------------------------
(* Text helpers: blanks and numbers in text *)

RECURSIVE Collapse(_, _)
\* re.sub(r'\s+', ' ', text): a run of whitespace becomes one space
Collapse(s, i) ==
    IF i > Len(s) THEN ""
    ELSE IF Char(s, i) = " " /\ i > 1 /\ Char(s, i - 1) = " " THEN Collapse(s, i + 1)
    ELSE Char(s, i) \o Collapse(s, i + 1)

RECURSIVE LStrip(_)
LStrip(s) == IF Len(s) > 0 /\ Char(s, 1) = " " THEN LStrip(SubSeq(s, 2, Len(s))) ELSE s

RECURSIVE RStrip(_)
RStrip(s) ==
    IF Len(s) > 0 /\ Char(s, Len(s)) = " " THEN RStrip(SubSeq(s, 1, Len(s) - 1)) ELSE s

\* str.strip(), and get_text(strip=True) of a cell holding one text
str_strip(s) == LStrip(RStrip(s))

clean_text(text) == str_strip(Collapse(text, 1))

\* the first position of k in s, 0 when there is none
str_find(k, s) ==
    IF str_in(k, s)
    THEN CHOOSE i \in 1..(Len(s) - Len(k) + 1) :
            /\ SubSeq(s, i, i + Len(k) - 1) = k
            /\ \A j \in 1..(i - 1) : SubSeq(s, j, j + Len(k) - 1) # k
    ELSE 0

RECURSIVE DigitRunEnd(_, _)
\* the last position of the run of digits that holds position i
DigitRunEnd(s, i) ==
    IF i < Len(s) /\ IsDigit(Char(s, i + 1)) THEN DigitRunEnd(s, i + 1) ELSE i

RECURSIVE DigitsValue(_, _, _)
\* int(s[i..j])
DigitsValue(s, i, j) ==
    IF j < i THEN 0
    ELSE 10 * DigitsValue(s, i, j - 1) + (IndexIn(Char(s, j), Digits) - 1)

RECURSIVE Pow10(_)
Pow10(k) == IF k = 0 THEN 1 ELSE 10 * Pow10(k - 1)

\* float(s[i..j] "." s[j+2..e]) in fixed point (e = j: no fraction); the model's
\* cells hold at most four decimals
FixedPoint(s, i, j, e) ==
    LET decimals == IF e > j THEN Min(e - j - 1, 4) ELSE 0
    IN  DigitsValue(s, i, j) * Scale
          + (IF decimals > 0
             THEN DigitsValue(s, j + 2, j + 1 + decimals) * Pow10(4 - decimals)
             ELSE 0)

\* whether a '.' and a digit follow position j
HasFraction(s, j) ==
    j + 2 <= Len(s) /\ Char(s, j + 1) = "." /\ IsDigit(Char(s, j + 2))

\* where digit runs start
RunStarts(s) ==
    {i \in 1..Len(s) : IsDigit(Char(s, i)) /\ (i = 1 \/ ~IsDigit(Char(s, i - 1)))}

\* re.search(r'(\d+(\.\d+)?)', s): the first run of digits, with its fraction
search_number(s) ==
    LET starts == RunStarts(s)
    IN  IF starts = {} THEN [found |-> FALSE]
        ELSE LET i == CHOOSE x \in starts : \A y \in starts : x <= y
                 j == DigitRunEnd(s, i)
                 e == IF HasFraction(s, j) THEN DigitRunEnd(s, j + 2) ELSE j
             IN  [found |-> TRUE, value |-> FixedPoint(s, i, j, e)]

\* re.search(r'(\d+\.\d+)', s): the first run of digits that a fraction follows
search_decimal(s) ==
    LET starts == {i \in RunStarts(s) : HasFraction(s, DigitRunEnd(s, i))}
    IN  IF starts = {} THEN [found |-> FALSE]
        ELSE LET i == CHOOSE x \in starts : \A y \in starts : x <= y
                 j == DigitRunEnd(s, i)
             IN  [found |-> TRUE,
                  value |-> FixedPoint(s, i, j, DigitRunEnd(s, j + 2))]

-----------------------------------------------------------------------------
(* MHTCETScraper._standardize_branch_name *)

standardize_branch_name_it_first(branch_in) ==
    LET branch == str_lower(branch_in)
    IN  IF str_in("information technology", branch) \/ str_in("it", branch)
            THEN "Information Technology"
        ELSE IF str_in("computer", branch) THEN "Computer Engineering"
        ELSE IF str_in("electronics", branch) /\ str_in("telecommunication", branch)
            THEN "Electronics and Telecommunication Engineering"
        ELSE IF str_in("mechanical", branch) THEN "Mechanical Engineering"
        ELSE IF str_in("civil", branch) THEN "Civil Engineering"
        ELSE IF str_in("electrical", branch) THEN "Electrical Engineering"
        ELSE str_title(branch)

standardize_branch_name(branch_in) ==
    LET branch == str_lower(branch_in)
    IN  IF str_in("computer", branch) THEN "Computer Engineering"
        ELSE IF str_in("information technology", branch) \/ str_in("it", branch)
            THEN "Information Technology"
        ELSE IF str_in("electronics", branch) /\ str_in("telecommunication", branch)
            THEN "Electronics and Telecommunication Engineering"
        ELSE IF str_in("mechanical", branch) THEN "Mechanical Engineering"
        ELSE IF str_in("civil", branch) THEN "Civil Engineering"
        ELSE IF str_in("electrical", branch) THEN "Electrical Engineering"
        ELSE str_title(branch)

-----------------------------------------------------------------------------
(* The estimators called on their own *)

\* _standardize_branch_name was not called yet
NoStd == [called |-> FALSE]

NoRtp == [called |-> FALSE, rank |-> 0, total |-> 1, result |-> 0]
NoPac == [called |-> FALSE, user |-> 0, cutoff |-> 0, label |-> ""]

\* ranks on both sides of every pool, and the ranks the serving scenarios use
SampleRanks == {12250, 24500, 350000, 400000}
Ranks == (-2..MaxRank) \cup SampleRanks
Pools == (1..MaxPool) \cup {128, DefaultTotal}

SampleCutoffs == {912000, 965000}
Offsets == {-65000, -25001, -25000, -7501, -7500, 0, 4999, 5000, 19999, 20000}
UserPercentiles ==
    {c + o : c \in SampleCutoffs, o \in Offsets} \cap (0..(100 * Scale))

CallRankToPercentile ==
    /\ \E r \in Ranks, p \in Pools :
          rtp' = [called |-> TRUE, rank |-> r, total |-> p,
                  result |-> rank_to_percentile(r, p)]
    /\ rtpPrev' = rtp
    /\ UNCHANGED <<pac, pacPrev, std, serveVars, scraperVars, logVars>>

CallPredictAdmissionChance ==
    /\ \E u \in UserPercentiles, c \in SampleCutoffs :
          pac' = [called |-> TRUE, user |-> u, cutoff |-> c,
                  label |-> predict_admission_chance(u, c)]
    /\ pacPrev' = pac
    /\ UNCHANGED <<rtp, rtpPrev, std, serveVars, scraperVars, logVars>>

-----------------------------------------------------------------------------
(* pandas: ordering rows *)

\* the orders of 1..n
Perms(n) == {f \in [1..n -> 1..n] : \A i, j \in 1..n : i # j => f[i] # f[j]}

\* sort_values on one column uses an unstable sort: rows with equal keys come
\* out in an order the library picks.  prio names that order.  Every order is
\* tried for a frame of up to three rows; for a larger frame the input order
\* and its reverse, which put any two tied rows both ways round.
TieOrders(n) ==
    IF n <= 3 THEN Perms(n)
    ELSE {[i \in 1..n |-> i], [i \in 1..n |-> n + 1 - i]}

\* the sequence f written out, each element computed once
Listed(f) == f \o <<>>

\* rows in the total order over their indices that before gives: the pairs
\* <<j, i>> with row j ahead of row i
SortRows(rows, before) ==
    LET n == Len(rows)
        pos == Listed([i \in 1..n |->
                          1 + Cardinality({j \in 1..n : <<j, i>> \in before})])
    IN  Listed([k \in 1..n |-> rows[CHOOSE i \in 1..n : pos[i] = k]])

\* DataFrame.sort_values(by='cutoff_percentile', ascending=asc)
sort_by_cutoff(rows, asc, prio) ==
    LET key(i) == rows[i].cutoff_percentile
        Before(i, j) ==
            \/ (IF asc THEN key(i) < key(j) ELSE key(i) > key(j))
            \/ key(i) = key(j) /\ prio[i] < prio[j]
    IN  SortRows(rows, {p \in (1..Len(rows)) \X (1..Len(rows)) : Before(p[1], p[2])})

\* rows[mask]: the rows whose index the mask keeps, in order
RECURSIVE FilterFrom(_, _, _)
FilterFrom(rows, i, keep) ==
    IF i > Len(rows) THEN <<>>
    ELSE (IF i \in keep THEN <<rows[i]>> ELSE <<>>) \o FilterFrom(rows, i + 1, keep)

Filter(rows, keep) == FilterFrom(rows, 1, keep)

\* DataFrame.head(limit)
head(rows, limit) == SubSeq(rows, 1, Min(limit, Len(rows)))

-----------------------------------------------------------------------------
(* MHTCETAssistant.suggest_colleges *)

suggest_colleges_strict(user_rank, limit, prio) ==
    IF df_colleges = <<>>
    THEN [safe |-> <<>>, ambitious |-> <<>>, user_percentile |-> 0]
    ELSE
    LET user_percentile == rank_to_percentile(user_rank, DefaultTotal)
        IsGeneral(r) == str_upper(r.category) = "GENERAL"
        df_filtered ==
            Filter(df_colleges,
                   {i \in 1..Len(df_colleges) : IsGeneral(df_colleges[i])})
        IsSafe(r) == r.cutoff_percentile < user_percentile
        IsAmbitious(r) == r.cutoff_percentile > user_percentile
        safe_df ==
            Filter(df_filtered,
                   {i \in 1..Len(df_filtered) : IsSafe(df_filtered[i])})
        ambitious_df ==
            Filter(df_filtered,
                   {i \in 1..Len(df_filtered) : IsAmbitious(df_filtered[i])})
    IN  [safe |-> head(sort_by_cutoff(safe_df, FALSE, prio), limit),
         ambitious |-> head(sort_by_cutoff(ambitious_df, TRUE, prio), limit),
         user_percentile |-> user_percentile]

\* prio: the tie order of the two sorts (a permutation of the table's indices)
suggest_colleges(user_rank, limit, prio) ==
    IF df_colleges = <<>>
    THEN [safe |-> <<>>, ambitious |-> <<>>, user_percentile |-> 0]
    ELSE
    LET user_percentile == rank_to_percentile(user_rank, DefaultTotal)
        IsGeneral(r) == str_upper(r.category) = "GENERAL"
        df_filtered ==
            Filter(df_colleges,
                   {i \in 1..Len(df_colleges) : IsGeneral(df_colleges[i])})
        IsSafe(r) == r.cutoff_percentile <= user_percentile
        IsAmbitious(r) == r.cutoff_percentile > user_percentile
        safe_df ==
            Filter(df_filtered,
                   {i \in 1..Len(df_filtered) : IsSafe(df_filtered[i])})
        ambitious_df ==
            Filter(df_filtered,
                   {i \in 1..Len(df_filtered) : IsAmbitious(df_filtered[i])})
    IN  IF df_filtered = <<>>
        THEN [safe |-> <<>>, ambitious |-> <<>>,
              user_percentile |-> user_percentile]
        ELSE [safe |-> head(sort_by_cutoff(safe_df, FALSE, prio), limit),
              ambitious |-> head(sort_by_cutoff(ambitious_df, TRUE, prio), limit),
              user_percentile |-> user_percentile]

-----------------------------------------------------------------------------
(* Series.str.contains(pat, case=False, na=False): pat is a regular        *)
(* expression.  The model reads the patterns made of literal characters,   *)
(* '.', and the group brackets '(' and ')'.                                *)

RECURSIVE Balanced(_, _, _)
\* re.compile accepts pat from position i on, depth groups being open
Balanced(pat, i, depth) ==
    IF i > Len(pat) THEN depth = 0
    ELSE IF Char(pat, i) = "(" THEN Balanced(pat, i + 1, depth + 1)
    ELSE IF Char(pat, i) = ")" THEN depth > 0 /\ Balanced(pat, i + 1, depth - 1)
    ELSE Balanced(pat, i + 1, depth)

RECURSIVE Atoms(_, _)
\* what the pattern consumes: its characters without the group brackets
Atoms(pat, i) ==
    IF i > Len(pat) THEN ""
    ELSE (IF Char(pat, i) \in {"(", ")"} THEN "" ELSE Char(pat, i))
         \o Atoms(pat, i + 1)

\* re.search(pat, text, re.IGNORECASE) finds a match; pat compiles
regex_search(pat, text) ==
    LET atoms == str_lower(Atoms(pat, 1))
        t == str_lower(text)
        n == Len(atoms)
    IN  \E off \in 0..(Len(t) - n) :
            \A k \in 1..n :
                Char(atoms, k) = "." \/ Char(atoms, k) = Char(t, off + k)

-----------------------------------------------------------------------------
(* The serving handlers *)

ServeRecords == {
    [college |-> "VJTI", branch |-> "Computer Engineering",
     category |-> "General", cutoff_percentile |-> 965000, source |-> "mock_data"],
    [college |-> "CoEP (Pune)", branch |-> "Mechanical Engineering",
     category |-> "General", cutoff_percentile |-> 912000, source |-> "mock_data"],
    [college |-> "CoEP (Pune)", branch |-> "Computer Engineering",
     category |-> "general", cutoff_percentile |-> 965000, source |-> "mock_data"],
    [college |-> "VJTI", branch |-> "Civil Engineering",
     category |-> "OBC", cutoff_percentile |-> 880000, source |-> "mock_data"] }

SeqsUpTo(S, n) == UNION {[1..k -> S] : k \in 0..n}

Datasets == SeqsUpTo(ServeRecords, MaxRows)

SuggestRanks == {-5, 0, 1, 12250, 24500, 400000}
Limits == {1, 2, DefaultLimit}
Queries == {"", "VJTI", "coep", "CoEP (Pune)", "P.ne", "Pune)", "MIT"}
PredictPercentiles == {0, 900000, 965000}

\* no request is being served
NoResp == [op |-> "none"]

\* the session holds no 'last_suggestion'
NoSuggestion == [stored |-> FALSE]

\* no chat request was made; client is whether openai.OpenAI(...) succeeded
NoChat == [pc |-> "idle", client |-> TRUE]

\* suggest_colleges called with a limit of the caller's choice
CallSuggestColleges ==
    /\ resp = NoResp
    /\ \E rank \in SuggestRanks, limit \in Limits,
          prio \in TieOrders(Len(df_colleges)) :
          resp' = [op |-> "suggest_colleges", rank |-> rank, limit |-> limit,
                   result |-> suggest_colleges(rank, limit, prio)]
    /\ UNCHANGED <<df_colleges, session, chat, estimatorVars, scraperVars, logVars>>

\* request.json['rank'] as JSON gives it: a number, a string, null, or no key
RankInputs ==
    {[t |-> "int", v |-> r] : r \in SuggestRanks}
        \cup {[t |-> "str", v |-> x] : x \in {"abc", "", "12.5", "-5", " 24500 "}}
        \cup {[t |-> "float", v |-> 127000], [t |-> "null"], [t |-> "missing"]}

\* int(text): surrounding blanks and one sign are allowed, then digits only
int_of_str(text) ==
    LET t == str_strip(text)
        signed == t # "" /\ Char(t, 1) \in {"-", "+"}
        body == IF signed THEN SubSeq(t, 2, Len(t)) ELSE t
        digits == body # "" /\ \A i \in 1..Len(body) : IsDigit(Char(body, i))
    IN  IF ~digits THEN [raised |-> "ValueError"]
        ELSE [raised |-> "no",
              value |-> IF signed /\ Char(t, 1) = "-"
                        THEN 0 - DigitsValue(body, 1, Len(body))
                        ELSE DigitsValue(body, 1, Len(body))]

\* int(data.get('rank', 0)): a float is cut towards zero, None is a TypeError
int_of(raw) ==
    IF raw.t = "int" THEN [raised |-> "no", value |-> raw.v]
    ELSE IF raw.t = "float"
        THEN [raised |-> "no",
              value |-> IF raw.v < 0 THEN 0 - ((0 - raw.v) \div Scale)
                        ELSE raw.v \div Scale]
    ELSE IF raw.t = "str" THEN int_of_str(raw.v)
    ELSE IF raw.t = "missing" THEN [raised |-> "no", value |-> 0]
    ELSE [raised |-> "TypeError"]

valid_rank_or_zero(rank) == rank >= 0

\* `if rank <= 0` does not hold
valid_rank(rank) == rank > 0

\* The payload of POST /suggest and the session it leaves.  evaluated tells
\* whether suggest_colleges was called.
suggest_response(raw, prio) ==
    LET req == [op |-> "suggest", raw |-> raw]
        parsed == int_of(raw)
    IN  IF parsed.raised # "no"
        THEN [resp |-> req @@ [code |-> 400, success |-> FALSE, evaluated |-> FALSE,
                               error |-> "Invalid rank format. Please enter a number."],
              session |-> session]
        ELSE IF ~valid_rank(parsed.value)
        THEN [resp |-> req @@ [code |-> 400, success |-> FALSE, evaluated |-> FALSE,
                               error |-> "Please provide a valid rank."],
              session |-> session]
        ELSE LET suggestions == suggest_colleges(parsed.value, DefaultLimit, prio)
             IN  [resp |-> req @@ [code |-> 200, success |-> TRUE, evaluated |-> TRUE,
                                   rank |-> parsed.value,
                                   percentile |-> suggestions.user_percentile,
                                   suggestions |-> suggestions],
                  session |-> [stored |-> TRUE, value |-> suggestions]]

table_after_rebound(table, frame) == frame

\* The table a request leaves.  Boolean indexing, .copy() and sort_values
\* give the handler a frame of its own under a local name, and no handler
\* assigns assistant.df_colleges: the table stays the one object it was.
table_after(table, frame) == table

\* df_filtered of suggest_colleges, once the rank was accepted
suggest_frame(raw) ==
    LET parsed == int_of(raw)
    IN  IF parsed.raised # "no" \/ ~valid_rank(parsed.value) THEN df_colleges
        ELSE Filter(df_colleges,
                    {i \in 1..Len(df_colleges) :
                        str_upper(df_colleges[i].category) = "GENERAL"})

\* POST /suggest
handle_suggest ==
    /\ resp = NoResp
    /\ \E raw \in RankInputs, prio \in TieOrders(Len(df_colleges)) :
          \E out \in {suggest_response(raw, prio)} :
              /\ resp' = out.resp
              /\ session' = out.session
              /\ df_colleges' = table_after(df_colleges, suggest_frame(raw))
    /\ UNCHANGED <<chat, estimatorVars, scraperVars, logVars>>

\* The payload of POST /predict.  An empty DataFrame has no 'college' column
\* (KeyError) and a pattern that does not compile raises re.error: both reach
\* `except Exception`.
predict_response(percentile, college_query, prio) ==
    LET req == [op |-> "predict", percentile |-> percentile, query |-> college_query]
    IN
    IF college_query = "" \/ percentile <= 0
    THEN req @@ [code |-> 400, success |-> FALSE,
                error |-> "Please provide a valid percentile and college name."]
    ELSE IF df_colleges = <<>> \/ ~Balanced(college_query, 1, 0)
    THEN req @@ [code |-> 500, success |-> FALSE,
                error |-> "An internal error occurred."]
    ELSE
    LET Matches(r) == regex_search(college_query, r.college)
        match ==
            Filter(df_colleges,
                   {i \in 1..Len(df_colleges) : Matches(df_colleges[i])})
    IN  IF match = <<>>
        THEN req @@ [code |-> 200, success |-> FALSE, error |-> "Could not find"]
        ELSE LET cutoff_data == sort_by_cutoff(match, FALSE, prio)[1]
             IN  req @@ [code |-> 200, success |-> TRUE,
                        college |-> cutoff_data.college,
                        branch |-> cutoff_data.branch,
                        cutoff_percentile |-> cutoff_data.cutoff_percentile,
                        admission_chance |->
                            predict_admission_chance(
                                percentile, cutoff_data.cutoff_percentile)]

\* match of handle_predict after sort_values, once the request got that far
predict_frame(percentile, college_query, prio) ==
    IF \/ college_query = "" \/ percentile <= 0
       \/ df_colleges = <<>> \/ ~Balanced(college_query, 1, 0)
    THEN df_colleges
    ELSE sort_by_cutoff(
             Filter(df_colleges,
                    {i \in 1..Len(df_colleges) :
                        regex_search(college_query, df_colleges[i].college)}),
             FALSE, prio)

\* POST /predict with a numeric percentile
handle_predict ==
    /\ resp = NoResp
    /\ \E percentile \in PredictPercentiles, college_query \in Queries,
          prio \in TieOrders(Len(df_colleges)) :
          /\ resp' = predict_response(percentile, college_query, prio)
          /\ df_colleges' =
                table_after(df_colleges, predict_frame(percentile, college_query, prio))
    /\ UNCHANGED <<session, chat, estimatorVars, scraperVars, logVars>>

-----------------------------------------------------------------------------
(* POST /feedback.  feedback.exists is whether feedback_log.csv exists and  *)
(* feedback.log its rows; feedback.req[i] is the i-th request.  The rows a   *)
(* request writes stay in the file object's buffer until the with block      *)
(* closes the file, and reach the end of the log together.                   *)

Header == [kind |-> "header"]
Row(i) == [kind |-> "row", request |-> i]

\* request.json: an object, null, or a body that is not JSON
FeedbackBodies == {"object", "null", "not_json"}

NoFeedback ==
    [exists |-> FALSE, log |-> <<>>, req |-> [i \in 1..MaxFeedback |-> [pc |-> "none"]]]

\* the log an earlier process left: the header and one row
EarlierLog == [NoFeedback EXCEPT !.exists = TRUE, !.log = <<Header, Row(0)>>]

\* `data = request.json` and `file_exists = os.path.isfile(feedback_file)`
feedback_isfile(i) ==
    /\ feedback.req[i].pc = "none"
    /\ \E body \in FeedbackBodies :
          feedback' =
            IF body = "not_json"
            THEN [feedback EXCEPT !.req[i] = [pc |-> "failed", code |-> 500]]
            ELSE [feedback EXCEPT !.req[i] =
                     [pc |-> "checked", body |-> body, file_exists |-> feedback.exists]]
    /\ UNCHANGED <<estimatorVars, serveVars, scraperVars>>

\* open(feedback_file, 'a', ...): creates the file, or raises OSError
feedback_open(i) ==
    /\ feedback.req[i].pc = "checked"
    /\ \/ feedback' = [feedback EXCEPT !.exists = TRUE, !.req[i].pc = "opened"]
       \/ feedback' = [feedback EXCEPT !.req[i] = [pc |-> "failed", code |-> 500]]
    /\ UNCHANGED <<estimatorVars, serveVars, scraperVars>>

\* `if not file_exists: writer.writeheader()`, then writer.writerow({...}),
\* where data.get raises AttributeError when data is None
write_rows(log, i, file_exists, body) ==
    log \o (IF ~file_exists THEN <<Header>> ELSE <<>>)
        \o (IF body = "object" THEN <<Row(i)>> ELSE <<>>)

\* the with block and the response
feedback_write(i) ==
    /\ feedback.req[i].pc = "opened"
    /\ feedback' =
          [feedback EXCEPT
              !.log = write_rows(@, i, feedback.req[i].file_exists, feedback.req[i].body),
              !.req[i] = IF feedback.req[i].body = "object"
                         THEN [pc |-> "acknowledged", code |-> 200]
                         ELSE [pc |-> "failed", code |-> 500]]
    /\ UNCHANGED <<estimatorVars, serveVars, scraperVars>>

handle_feedback ==
    \E i \in 1..MaxFeedback : feedback_isfile(i) \/ feedback_open(i) \/ feedback_write(i)

-----------------------------------------------------------------------------
(* The pages and the parsers.  A parsed page (soup) is                     *)
(*   [cutoff_div: whether <div id="cutoff"> exists,                        *)
(*    tables: the <table>s, all of them inside that div when it exists]    *)
(* a table [th: header texts, tbody: whether it has a <tbody>, rows], a    *)
(* row a sequence of <td> cells, a cell [text, a: whether the text is a    *)
(* link].  Rows of a table without <tbody> are its direct children.        *)

Cell(text, a) == [text |-> text, a |-> a]

\* re.search(r'B\.Tech\s*(.*)', college_name)
branch_of(college_name) ==
    LET b == str_find("B.Tech", college_name)
    IN  IF b = 0 THEN "Unknown"
        ELSE LStrip(SubSeq(college_name, b + 6, Len(college_name)))

\* re.sub(r',?\s*B\.Tech.*', '', college_name)
college_of(college_name) ==
    LET b == str_find("B.Tech", college_name)
        before == SubSeq(college_name, 1, b - 1)
        stripped == RStrip(before)
    IN  IF b = 0 THEN college_name
        ELSE IF Len(stripped) > 0 /\ Char(stripped, Len(stripped)) = ","
            THEN SubSeq(stripped, 1, Len(stripped) - 1)
        ELSE stripped

RECURSIVE collegesearch_rows(_, _, _)
\* the loop over table.find('tbody').find_all('tr')
collegesearch_rows(rows, i, url) ==
    IF i > Len(rows) THEN <<>>
    ELSE LET cols == rows[i]
             percentile_match ==
                 IF Len(cols) >= 2 THEN search_decimal(str_strip(cols[2].text))
                 ELSE [found |-> FALSE]
         IN  (IF percentile_match.found
              THEN <<[college |-> clean_text(str_strip(cols[1].text)),
                      branch |-> "Computer Engineering",
                      cutoff_percentile |-> percentile_match.value,
                      category |-> "General",
                      source |-> url]>>
              ELSE <<>>) \o collegesearch_rows(rows, i + 1, url)

HeadersOf(table) == {str_lower(str_strip(table.th[k])) : k \in 1..Len(table.th)}

RECURSIVE collegesearch_tables(_, _, _)
\* the loop over soup.find_all('table'); table.find('tbody') is None for a
\* table without <tbody>, and None.find_all raises AttributeError
collegesearch_tables(tables, i, url) ==
    IF i > Len(tables) THEN [raised |-> FALSE, data |-> <<>>]
    ELSE LET table == tables[i]
             headers == HeadersOf(table)
             rest == collegesearch_tables(tables, i + 1, url)
         IN  IF "college name" \in headers /\ "mht cet cutoff percentile" \in headers
             THEN IF ~table.tbody \/ rest.raised
                  THEN [raised |-> TRUE, data |-> <<>>]
                  ELSE [raised |-> FALSE,
                        data |-> collegesearch_rows(table.rows, 1, url) \o rest.data]
             ELSE rest

parse_collegesearch(soup, url) == collegesearch_tables(soup.tables, 1, url)

RECURSIVE collegedunia_rows(_, _, _)
collegedunia_rows(rows, i, url) ==
    IF i > Len(rows) THEN <<>>
    ELSE LET cols == rows[i]
             usable == Len(cols) >= 2 /\ cols[1].a
             college_name == str_strip(cols[1].text)
             percentile_match ==
                 IF usable THEN search_number(str_strip(cols[2].text))
                 ELSE [found |-> FALSE]
         IN  (IF percentile_match.found
              THEN <<[college |-> clean_text(college_of(college_name)),
                      branch |-> standardize_branch_name(branch_of(college_name)),
                      cutoff_percentile |-> percentile_match.value,
                      category |-> "General",
                      source |-> url]>>
              ELSE <<>>) \o collegedunia_rows(rows, i + 1, url)

RECURSIVE collegedunia_tables(_, _, _)
\* the loop over cutoff_div.find_all('table')
collegedunia_tables(tables, i, url) ==
    IF i > Len(tables) THEN [raised |-> FALSE, data |-> <<>>]
    ELSE LET table == tables[i]
             rest == collegedunia_tables(tables, i + 1, url)
         IN  IF ~table.tbody \/ rest.raised
             THEN [raised |-> TRUE, data |-> <<>>]
             ELSE [raised |-> FALSE,
                   data |-> collegedunia_rows(table.rows, 1, url) \o rest.data]

parse_collegedunia(soup, url) ==
    IF ~soup.cutoff_div THEN [raised |-> FALSE, data |-> <<>>]
    ELSE collegedunia_tables(soup.tables, 1, url)

live_sources == <<
    [name |-> "CollegeSearch",
     url |-> "https://www.collegesearch.in/articles/mht-cet-cutoff-for-computer-engineering"],
    [name |-> "CollegeDunia",
     url |-> "https://collegedunia.com/exams/mht-cet/cutoff"] >>

\* source['parser'](soup, source['url'])
parse(source, soup) ==
    IF source.name = "CollegeSearch" THEN parse_collegesearch(soup, source.url)
    ELSE parse_collegedunia(soup, source.url)

-----------------------------------------------------------------------------
(* MHTCETScraper.scrape_live_data, one source at a time *)

GoodTable ==
    [th |-> <<"College Name", "MHT CET Cutoff Percentile">>,
     tbody |-> TRUE,
     rows |-> <<
        <<Cell("VJTI,  B.Tech Computer ", TRUE), Cell(" 96.5 ", FALSE)>>,
        <<Cell("CoEP", TRUE)>>,
        <<Cell("CoEP", TRUE), Cell("N/A", FALSE)>>,
        <<Cell("MIT", FALSE), Cell("91.2", FALSE)>>,
        <<Cell("CoEP B.Tech Civil", TRUE), Cell("99", FALSE)>> >>]

NoBodyTable == [GoodTable EXCEPT !.tbody = FALSE]
NoRowsTable == [GoodTable EXCEPT !.rows = <<>>]

Pages == {
    [cutoff_div |-> FALSE, tables |-> <<>>],
    [cutoff_div |-> TRUE, tables |-> <<GoodTable>>],
    [cutoff_div |-> TRUE, tables |-> <<NoBodyTable>>],
    [cutoff_div |-> TRUE, tables |-> <<GoodTable, NoBodyTable>>],
    [cutoff_div |-> TRUE, tables |-> <<NoRowsTable>>] }

\* what session.get and raise_for_status may do
Responses == {[ok |-> FALSE]} \cup {[ok |-> TRUE, content |-> p] : p \in Pages}

\* _get_page_content: the soup, or None after a RequestException
get_page_content(response) ==
    IF response.ok THEN [none |-> FALSE, soup |-> response.content]
    ELSE [none |-> TRUE]

\* one pass of the loop body: what became of the source, and its records
scrape_one(source, response) ==
    LET page == get_page_content(response)
    IN  IF page.none THEN [outcome |-> "skipped", data |-> <<>>]
        ELSE LET scraped == parse(source, page.soup)
             IN  IF scraped.raised THEN [outcome |-> "raised", data |-> <<>>]
                 ELSE [outcome |-> "parsed", data |-> scraped.data]

next_source_abort(i, outcome) ==
    IF outcome = "parsed" THEN i + 1 ELSE Len(live_sources) + 1

\* the for loop goes on to the next source whatever became of this one
next_source(i, outcome) == i + 1

run_start ==
    /\ pc \in {"idle", "done"}
    /\ pc' = "scrape"
    /\ src_i' = 1
    /\ all_data' = <<>>
    /\ attempts' = <<>>
    /\ mock' = FALSE
    /\ ret' = "none"
    /\ UNCHANGED <<file, estimatorVars, serveVars, logVars>>

scrape_source ==
    /\ pc = "scrape"
    /\ src_i <= Len(live_sources)
    /\ \E response \in Responses :
          LET source == live_sources[src_i]
              got == scrape_one(source, response)
          IN  /\ all_data' = all_data \o got.data
              /\ attempts' = Append(attempts,
                    [source |-> source.name, response |-> response,
                     outcome |-> got.outcome])
              /\ src_i' = next_source(src_i, got.outcome)
    /\ UNCHANGED <<pc, file, mock, ret, estimatorVars, serveVars, logVars>>

-----------------------------------------------------------------------------
(* MHTCETScraper.generate_mock_data *)

colleges == <<
    "Veermata Jijabai Technological Institute (VJTI), Mumbai",
    "College of Engineering, Pune (CoEP)",
    "Sardar Patel Institute of Technology, Mumbai",
    "Walchand College of Engineering, Sangli",
    "MIT Academy of Engineering, Pune",
    "Vishwakarma Institute of Technology, Pune",
    "Thadomal Shahani Engineering College, Mumbai",
    "Government College of Engineering, Aurangabad" >>

branches == <<
    "Computer Engineering",
    "Information Technology",
    "Electronics and Telecommunication Engineering",
    "Mechanical Engineering",
    "Civil Engineering" >>

\* the generator's arithmetic is carried in units of 1/(Scale * Fine) of a
\* percentile point, one decimal digit below what round(.., 4) keeps
Fine == 10

\* the draws of random.uniform(0, 1.5) of one generation, by seed: all 0, all
\* 1.5, or a value with a fifth decimal that changes from record to record
Seeds == {0, 1, 2}
uniform(seed, k) ==
    IF seed = 0 THEN 0
    ELSE IF seed = 1 THEN (3 * Scale * Fine) \div 2
    ELSE Fine * ((k * 3571) % ((3 * Scale) \div 2)) + (IF k % 2 = 0 THEN 3 ELSE 7)

get_base_percentile_add_noise(college, branch, noise) ==
    LET tier == IF \E t \in {"VJTI", "CoEP", "Sardar Patel"} : str_in(t, college)
                    THEN 96 * Scale * Fine
                ELSE IF \E t \in {"Walchand", "MIT", "Vishwakarma"} : str_in(t, college)
                    THEN 92 * Scale * Fine
                ELSE 85 * Scale * Fine
        bonus == IF str_in("Computer", branch) THEN (7 * Scale * Fine) \div 2
                 ELSE IF str_in("Information Technology", branch) THEN 3 * Scale * Fine
                 ELSE IF str_in("Electronics", branch) THEN (3 * Scale * Fine) \div 2
                 ELSE 0
    IN  tier + bonus + noise

get_base_percentile(college, branch, noise) ==
    LET tier == IF \E t \in {"VJTI", "CoEP", "Sardar Patel"} : str_in(t, college)
                    THEN 96 * Scale * Fine
                ELSE IF \E t \in {"Walchand", "MIT", "Vishwakarma"} : str_in(t, college)
                    THEN 92 * Scale * Fine
                ELSE 85 * Scale * Fine
        bonus == IF str_in("Computer", branch) THEN (7 * Scale * Fine) \div 2
                 ELSE IF str_in("Information Technology", branch) THEN 3 * Scale * Fine
                 ELSE IF str_in("Electronics", branch) THEN (3 * Scale * Fine) \div 2
                 ELSE 0
    IN  tier + bonus - noise

\* round(max(85.0, min(99.9, base_percentile)), 4) in units of 1/Scale
generate_mock_data(seed) ==
    Listed([k \in 1..(Len(colleges) * Len(branches)) |->
        LET college == colleges[((k - 1) \div Len(branches)) + 1]
            branch == branches[((k - 1) % Len(branches)) + 1]
            base_percentile == get_base_percentile(college, branch, uniform(seed, k))
        IN  [college |-> college,
             branch |-> branch,
             cutoff_percentile |->
                 Round4(Max(85 * Scale * Fine,
                            Min((999 * Scale * Fine) \div 10, base_percentile)),
                        Scale * Fine),
             category |-> "General",
             source |-> "mock_data"]])

-----------------------------------------------------------------------------
(* MHTCETScraper.save_data *)

Essential == {"college", "branch", "cutoff_percentile"}

\* df.dropna(subset=[...]): a record without the key holds NaN there
dropna(rows) ==
    FilterFrom(rows, 1, {i \in 1..Len(rows) : Essential \subseteq DOMAIN rows[i]})

apply_standardize(rows) ==
    Listed([i \in 1..Len(rows) |->
        [rows[i] EXCEPT !.branch = standardize_branch_name(rows[i].branch)]])

SameKey(r, q) ==
    r.college = q.college /\ r.branch = q.branch /\ r.category = q.category

drop_duplicates_keep_last(rows) ==
    FilterFrom(rows, 1,
        {i \in 1..Len(rows) : \A j \in (i + 1)..Len(rows) : ~SameKey(rows[j], rows[i])})

\* df.drop_duplicates(subset=['college', 'branch', 'category'], keep='first')
drop_duplicates(rows) ==
    FilterFrom(rows, 1,
        {i \in 1..Len(rows) : \A j \in 1..(i - 1) : ~SameKey(rows[j], rows[i])})

final_sort_skipped(rows) == rows

\* df.sort_values(['cutoff_percentile', 'college', 'branch'],
\*                ascending=[False, True, True]); the sort on several columns
\* is stable
final_sort(rows) ==
    LET Before(i, j) ==
            LET r == rows[i]
                q == rows[j]
            IN  \/ r.cutoff_percentile > q.cutoff_percentile
                \/ /\ r.cutoff_percentile = q.cutoff_percentile
                   /\ \/ str_lt(r.college, q.college)
                      \/ /\ r.college = q.college
                         /\ \/ str_lt(r.branch, q.branch)
                            \/ r.branch = q.branch /\ i < j
    IN  SortRows(rows, {p \in (1..Len(rows)) \X (1..Len(rows)) : Before(p[1], p[2])})

no_data_unchecked(data) == FALSE

\* `if not data`
no_data(data) == data = <<>>

\* mht_cet_data.json does not exist
NoFile == [kind |-> "absent", rows |-> <<>>]

\* what open(filename, 'w') and json.dump may do
IoOutcomes == {"ok", "open_fails", "dump_fails"}

\* the element of a singleton: each frame of save_data is computed once and
\* then named
TheOne(S) == CHOOSE x \in S : TRUE

\* the file and the return value save_data leaves: "True", "False", or
\* "raised" when an exception leaves it.  prio is the tie order of the first
\* sort, io what the file system does.  A frame that lacks a subset column
\* altogether makes dropna raise KeyError.
save_data(data, prio, io, old) ==
    IF no_data(data) THEN [file |-> old, ret |-> "False"]
    ELSE IF \E k \in Essential : \A i \in 1..Len(data) : k \notin DOMAIN data[i]
        THEN [file |-> old, ret |-> "raised"]
    ELSE
    LET df == TheOne({final_sort(unique) :
                  unique \in {drop_duplicates(sorted) :
                  sorted \in {sort_by_cutoff(named, FALSE, prio) :
                  named \in {apply_standardize(complete) :
                  complete \in {dropna(data)}}}}})
    IN  IF io = "open_fails" THEN [file |-> old, ret |-> "raised"]
        ELSE IF io = "dump_fails"
            THEN [file |-> [kind |-> "partial", rows |-> <<>>], ret |-> "raised"]
        ELSE [file |-> [kind |-> "complete", rows |-> df], ret |-> "True"]

-----------------------------------------------------------------------------
(* MHTCETScraper.run after scrape_live_data *)

run_data_mixed(data, seed) ==
    [data |-> data \o generate_mock_data(seed), mock |-> data = <<>>]

\* `if not data: data = self.generate_mock_data()`
run_data(data, seed) ==
    IF data = <<>> THEN [data |-> generate_mock_data(seed), mock |-> TRUE]
    ELSE [data |-> data, mock |-> FALSE]

\* run returns False without data, and None once save_data has returned
run_finish ==
    /\ pc = "scrape"
    /\ src_i > Len(live_sources)
    /\ \E seed \in Seeds :
          \E chosen \in {run_data(all_data, seed)} :
              /\ all_data' = chosen.data
              /\ mock' = chosen.mock
              /\ IF chosen.data = <<>>
                 THEN ret' = "False" /\ file' = file
                 ELSE \E prio \in TieOrders(Len(dropna(chosen.data))),
                         io \in IoOutcomes :
                         LET saved == save_data(chosen.data, prio, io, file)
                         IN  /\ file' = saved.file
                             /\ ret' = IF saved.ret = "raised" THEN "raised"
                                       ELSE "None"
    /\ pc' = "done"
    /\ UNCHANGED <<src_i, attempts, estimatorVars, serveVars, logVars>>

ScraperIdle ==
    /\ file = NoFile
    /\ pc = "idle"
    /\ src_i = 1
    /\ all_data = <<>>
    /\ attempts = <<>>
    /\ mock = FALSE
    /\ ret = "none"

EstimatorsIdle ==
    /\ rtp = NoRtp
    /\ rtpPrev = NoRtp
    /\ pac = NoPac
    /\ pacPrev = NoPac
    /\ std = NoStd

\* no request was served yet
ServingIdle ==
    /\ resp = NoResp
    /\ session = NoSuggestion
    /\ chat = NoChat
    /\ feedback = NoFeedback

Init ==
    /\ EstimatorsIdle
    /\ df_colleges = <<>>
    /\ ServingIdle
    /\ ScraperIdle

Next ==
    \/ run_start
    \/ scrape_source
    \/ run_finish

Spec == Init /\ [][Next]_vars

-----------------------------------------------------------------------------
(* save_data called on its own: the records handed over and the file an     *)
(* earlier run left are drawn first, then the call is made                  *)

\* a CollegeSearch row whose name cell is empty and whose cutoff cell reads
\* 150.5, and a CollegeDunia row whose link names no branch after "B.Tech"
\* and whose cutoff cell reads 250
OddTable ==
    [th |-> <<"College Name", "MHT CET Cutoff Percentile">>,
     tbody |-> TRUE,
     rows |-> << <<Cell(" ", FALSE), Cell("150.5", FALSE)>>,
                 <<Cell("CoEP B.Tech", TRUE), Cell("250", FALSE)>> >>]

\* what the two parsers make of them
OddRecords ==
    LET soup == [cutoff_div |-> TRUE, tables |-> <<OddTable>>]
    IN  SubSeq(parse(live_sources[1], soup).data, 1, 1)
            \o SubSeq(parse(live_sources[2], soup).data, 1, 1)

SaveRecords == {
    [college |-> "VJTI", branch |-> "Computer Engineering",
     cutoff_percentile |-> 965000, category |-> "General",
     source |-> live_sources[1].url],
    [college |-> "VJTI", branch |-> "computer science",
     cutoff_percentile |-> 970000, category |-> "General",
     source |-> live_sources[2].url],
    [college |-> "VJTI", branch |-> "Computer Engineering",
     cutoff_percentile |-> 965000, category |-> "General",
     source |-> live_sources[2].url],
    [college |-> "CoEP", branch |-> "Civil",
     cutoff_percentile |-> 965000, category |-> "General",
     source |-> live_sources[1].url],
    [college |-> "VJTI", branch |-> "Computer Engineering",
     cutoff_percentile |-> 965000, category |-> "OBC",
     source |-> live_sources[1].url],
    [college |-> "CoEP", branch |-> "Civil",
     category |-> "General", source |-> live_sources[1].url] }
        \cup {OddRecords[k] : k \in 1..Len(OddRecords)}

SaveInputs == SeqsUpTo(SaveRecords, MaxRecs)

\* the file a run over the mock data leaves
EarlierFile == save_data(generate_mock_data(0), [i \in 1..40 |-> i], "ok", NoFile).file

InitSave ==
    /\ EstimatorsIdle
    /\ df_colleges = <<>>
    /\ ServingIdle
    /\ file \in {NoFile, EarlierFile}
    /\ pc = "call"
    /\ src_i = 1
    /\ all_data \in SaveInputs
    /\ attempts = <<>>
    /\ mock = FALSE
    /\ ret = "none"

\* scraper.save_data(all_data)
call_save_data ==
    /\ pc = "call"
    /\ \E prio \in TieOrders(Len(dropna(all_data))), io \in IoOutcomes :
          \E saved \in {save_data(all_data, prio, io, file)} :
              /\ file' = saved.file
              /\ ret' = saved.ret
    /\ pc' = "saved"
    /\ UNCHANGED <<src_i, all_data, attempts, mock, estimatorVars, serveVars, logVars>>

SpecSave == InitSave /\ [][call_save_data]_vars

-----------------------------------------------------------------------------
(* POST /chat: handle_chat, then generate_response_stream run by the server  *)
(* one next() at a time.  A fragment is [kind, text]: the JSON object of one *)
(* "data: {...}" event.                                                      *)

Messages == {"", "  ", "hi", "VJTI cutoff"}

\* the delta of one upstream chunk: its content (text, '' or None), or a chunk
\* whose choices list is empty
Deltas ==
    {[choices |-> 1, content |-> [t |-> "str", v |-> x]] : x \in {"Hel", "lo", ""}}
        \cup {[choices |-> 1, content |-> [t |-> "null"]], [choices |-> 0]}

ErrNotInitialised == [kind |-> "error", text |-> "AI client not initialized. Check API key."]
ErrUpstream ==
    [kind |-> "error",
     text |-> "Sorry, I am having trouble connecting to my brain right now. Please try again later."]

\* search_relevant_data(query): an empty table gives [] at once; otherwise the
\* next statement calls re.split, and app.py never imports re: NameError
search_relevant_data(query) ==
    IF df_colleges = <<>> THEN [raised |-> FALSE, data |-> <<>>]
    ELSE [raised |-> TRUE]

\* handle_chat up to the Response it returns; the generator has not run yet
handle_chat ==
    /\ chat.pc = "idle"
    /\ \E message \in Messages :
          LET user_message == str_strip(message)
              started == [pc |-> "generator", client |-> chat.client,
                          message |-> user_message, code |-> 200, failed |-> FALSE,
                          consumed |-> <<>>, out |-> <<>>]
          IN  chat' =
                IF user_message = ""
                THEN [started EXCEPT !.pc = "closed", !.code = 400]
                ELSE IF search_relevant_data(user_message).raised
                THEN [started EXCEPT !.pc = "closed", !.code = 500, !.failed = TRUE]
                ELSE started
    /\ UNCHANGED <<df_colleges, resp, session, estimatorVars, scraperVars, logVars>>

\* the first next(): `if not client`, then client.chat.completions.create
stream_open ==
    /\ chat.pc = "generator"
    /\ \/ /\ ~chat.client
          /\ chat' = [chat EXCEPT !.pc = "closed", !.failed = TRUE,
                                  !.out = <<ErrNotInitialised>>]
       \/ /\ chat.client
          /\ chat' = [chat EXCEPT !.pc = "streaming"]
       \/ /\ chat.client
          /\ chat' = [chat EXCEPT !.pc = "closed", !.failed = TRUE,
                                  !.out = <<ErrUpstream>>]
    /\ UNCHANGED <<df_colleges, resp, session, estimatorVars, scraperVars, logVars>>

on_chunk_all(out, content) ==
    Append(out, [kind |-> "content", text |-> IF content.t = "str" THEN content.v ELSE ""])

\* `if content: yield ...`
on_chunk(out, content) ==
    IF content.t = "str" /\ content.v # ""
    THEN Append(out, [kind |-> "content", text |-> content.v])
    ELSE out

\* `for chunk in stream`: the next chunk arrives and its content, if any, is
\* yielded before the loop asks for another
stream_chunk ==
    /\ chat.pc = "streaming"
    /\ Len(chat.consumed) < MaxChunks
    /\ \E chunk \in Deltas :
          chat' =
            IF chunk.choices = 0
            THEN [chat EXCEPT !.pc = "closed", !.failed = TRUE,
                              !.consumed = Append(@, chunk),
                              !.out = Append(@, ErrUpstream)]
            ELSE [chat EXCEPT !.consumed = Append(@, chunk),
                              !.out = on_chunk(@, chunk.content)]
    /\ UNCHANGED <<df_colleges, resp, session, estimatorVars, scraperVars, logVars>>

\* the upstream stream ends: the loop and the generator finish
stream_end ==
    /\ chat.pc = "streaming"
    /\ chat' = [chat EXCEPT !.pc = "closed"]
    /\ UNCHANGED <<df_colleges, resp, session, estimatorVars, scraperVars, logVars>>

\* the upstream stream raises while the loop waits for a chunk
stream_error ==
    /\ chat.pc = "streaming"
    /\ chat' = [chat EXCEPT !.pc = "closed", !.failed = TRUE,
                            !.out = Append(@, ErrUpstream)]
    /\ UNCHANGED <<df_colleges, resp, session, estimatorVars, scraperVars, logVars>>

-----------------------------------------------------------------------------
(* MHTCETAssistant.load_data.  A file to load is [kind, rows]: kind is       *)
(* "absent", "partial" (not valid JSON), "object" (valid JSON that is not a  *)
(* list of records) or "complete"; a cutoff in it is a JSON number           *)
(* [t: "num", v] or a JSON string [t: "str", v].  The rows of one file name  *)
(* their columns alike.                                                      *)

LoadRecords == {
    [college |-> "VJTI", branch |-> "Computer Engineering", category |-> "General",
     cutoff_percentile |-> [t |-> "num", v |-> 965000]],
    [college |-> "CoEP (Pune)", branch |-> "Mechanical Engineering",
     category |-> "General", cutoff_percentile |-> [t |-> "str", v |-> "91.2"]],
    [college |-> "VJTI", branch |-> "Civil Engineering", category |-> "OBC",
     cutoff_percentile |-> [t |-> "str", v |-> "n/a"]],
    [college |-> "MIT", branch |-> "Civil Engineering", category |-> "General"] }

\* records under the column names load_data renames
OldNameRecords == {
    [college_name |-> "VJTI", branch_name |-> "Computer Engineering",
     category |-> "General", closing_percentile |-> [t |-> "num", v |-> 965000]],
    [college_name |-> "MIT", branch_name |-> "Civil Engineering",
     category |-> "General", closing_percentile |-> [t |-> "str", v |-> "n/a"]] }

LoadFiles ==
    {[kind |-> k, rows |-> <<>>] : k \in {"absent", "partial", "object"}}
        \cup {[kind |-> "complete", rows |-> rows] :
                 rows \in SeqsUpTo(LoadRecords, MaxRows)
                            \cup SeqsUpTo(OldNameRecords, MaxRows)}

\* DataFrame.rename(columns={...}, errors='ignore') on one row
rename(r) ==
    LET Renamed(k) == IF k = "college_name" THEN "college"
                      ELSE IF k = "branch_name" THEN "branch"
                      ELSE IF k = "closing_percentile" THEN "cutoff_percentile"
                      ELSE k
        Old(k) == CHOOSE o \in DOMAIN r : Renamed(o) = k
    IN  [k \in {Renamed(o) : o \in DOMAIN r} |-> r[Old(k)]]

\* whether pd.to_numeric reads the value: a number, or text that is a number
numeric(value) ==
    \/ value.t = "num"
    \/ LET t == str_strip(value.v)
       IN  /\ t # ""
           /\ IsDigit(Char(t, 1))
           /\ LET j == DigitRunEnd(t, 1)
              IN  (IF HasFraction(t, j) THEN DigitRunEnd(t, j + 2) ELSE j) = Len(t)

\* pd.to_numeric of a value it reads
to_numeric(value) ==
    IF value.t = "num" THEN value.v
    ELSE LET t == str_strip(value.v)
             j == DigitRunEnd(t, 1)
         IN  FixedPoint(t, 1, j, IF HasFraction(t, j) THEN DigitRunEnd(t, j + 2) ELSE j)

\* the table and the return value load_data leaves; before is the table
\* __init__ set (empty).  self.df_colleges is assigned as soon as the frame is
\* built, ahead of rename and to_numeric.
load_data(f, before) ==
    IF f.kind # "complete" THEN [df |-> before, ret |-> "False"]
    ELSE LET renamed == Listed([i \in 1..Len(f.rows) |-> rename(f.rows[i])])
             has == {i \in 1..Len(renamed) : "cutoff_percentile" \in DOMAIN renamed[i]}
         IN  IF \E i \in has : ~numeric(renamed[i].cutoff_percentile)
             THEN [df |-> renamed, ret |-> "False"]
             ELSE [df |-> Listed([i \in 1..Len(renamed) |->
                                    IF i \in has
                                    THEN [renamed[i] EXCEPT !.cutoff_percentile =
                                             to_numeric(@)]
                                    ELSE renamed[i]]),
                   ret |-> "True"]

\* assistant = MHTCETAssistant(): __init__ sets the empty table and calls
\* load_data; the process serves whatever load_data returned
assistant_init ==
    /\ pc = "start"
    /\ \E loaded \in {load_data(file, <<>>)} :
          /\ df_colleges' = loaded.df
          /\ ret' = loaded.ret
    /\ pc' = "serving"
    /\ UNCHANGED <<file, src_i, all_data, attempts, mock, resp, session, chat,
                   estimatorVars, logVars>>

InitLoad ==
    /\ EstimatorsIdle
    /\ df_colleges = <<>>
    /\ ServingIdle
    /\ file \in LoadFiles
    /\ pc = "start"
    /\ src_i = 1
    /\ all_data = <<>>
    /\ attempts = <<>>
    /\ mock = FALSE
    /\ ret = "none"

SpecLoad == InitLoad /\ [][assistant_init]_vars

-----------------------------------------------------------------------------
(* _standardize_branch_name called on its own, and through save_data on at   *)
(* most one record                                                           *)

BranchWords ==
    {"computer", "information technology", "it", "electronics", "telecommunication",
     "mechanical", "civil", "electrical", "design", "unknown"}

\* one word or two, in lower case, upper case and title case; the six labels
\* the classifier returns; a word that holds "it" inside; the empty text
BranchTexts ==
    {"", "Architecture", "Computer Engineering", "Information Technology",
     "Electronics and Telecommunication Engineering", "Mechanical Engineering",
     "Civil Engineering", "Electrical Engineering"}
        \cup UNION {{str_lower(t), str_upper(t), str_title(t)} :
                       t \in BranchWords
                               \cup {a \o " " \o b : a, b \in BranchWords}}

\* the call, and the call on its own result
CallStandardizeBranchName ==
    /\ ~std.called
    /\ \E branch \in BranchTexts :
          \E label \in {standardize_branch_name(branch)} :
              std' = [called |-> TRUE, branch |-> branch, label |-> label,
                      again |-> standardize_branch_name(label)]
    /\ UNCHANGED <<rtp, rtpPrev, pac, pacPrev, serveVars, scraperVars, logVars>>

InitBranch ==
    /\ EstimatorsIdle
    /\ df_colleges = <<>>
    /\ ServingIdle
    /\ file = NoFile
    /\ pc = "call"
    /\ src_i = 1
    /\ all_data \in SeqsUpTo(SaveRecords, 1)
    /\ attempts = <<>>
    /\ mock = FALSE
    /\ ret = "none"

NextBranch ==
    \/ CallStandardizeBranchName
    \/ call_save_data

SpecBranch == InitBranch /\ [][NextBranch]_vars

-----------------------------------------------------------------------------
(* Specifications of the serving side *)

InitEstimator ==
    /\ EstimatorsIdle
    /\ df_colleges = <<>>
    /\ ServingIdle
    /\ ScraperIdle

SpecRank == InitEstimator /\ [][CallRankToPercentile]_vars
SpecChance == InitEstimator /\ [][CallPredictAdmissionChance]_vars

\* after MHTCETAssistant(): the table load_data built, or the empty one
InitServe ==
    /\ EstimatorsIdle
    /\ df_colleges \in Datasets
    /\ ServingIdle
    /\ ScraperIdle

\* the payload is sent and the worker takes the next request
send_response ==
    /\ resp # NoResp
    /\ resp' = NoResp
    /\ UNCHANGED <<df_colleges, session, chat, estimatorVars, scraperVars, logVars>>

NextServe ==
    \/ send_response
    \/ CallSuggestColleges
    \/ handle_suggest
    \/ handle_predict

SpecServe == InitServe /\ [][NextServe]_vars

\* the process with or without a completion client, over an empty table or
\* a table of one row
InitChat ==
    /\ EstimatorsIdle
    /\ df_colleges \in {t \in Datasets : Len(t) <= 1}
    /\ resp = NoResp
    /\ session = NoSuggestion
    /\ chat \in {[NoChat EXCEPT !.client = c] : c \in BOOLEAN}
    /\ feedback = NoFeedback
    /\ ScraperIdle

NextChat ==
    \/ handle_chat
    \/ stream_open
    \/ stream_chunk
    \/ stream_end
    \/ stream_error

SpecChat == InitChat /\ [][NextChat]_vars

\* POST /feedback requests, served by the threads of the development server,
\* with or without a log left by an earlier process
InitFeedback ==
    /\ EstimatorsIdle
    /\ df_colleges = <<>>
    /\ resp = NoResp
    /\ session = NoSuggestion
    /\ chat = NoChat
    /\ feedback \in {NoFeedback, EarlierLog}
    /\ ScraperIdle

SpecFeedback == InitFeedback /\ [][handle_feedback]_vars

\* a table as load_data leaves it: three records, not in cutoff order, one
\* of another category
LoadedTable == <<
    [college |-> "CoEP (Pune)", branch |-> "Mechanical Engineering",
     category |-> "General", cutoff_percentile |-> 912000, source |-> "mock_data"],
    [college |-> "VJTI", branch |-> "Civil Engineering",
     category |-> "OBC", cutoff_percentile |-> 880000, source |-> "mock_data"],
    [college |-> "VJTI", branch |-> "Computer Engineering",
     category |-> "General", cutoff_percentile |-> 965000, source |-> "mock_data"] >>

\* the feedback requests of the model were all served
FeedbackServed ==
    [exists |-> TRUE,
     log |-> <<Header>> \o [i \in 1..MaxFeedback |-> Row(i)],
     req |-> [i \in 1..MaxFeedback |-> [pc |-> "acknowledged", code |-> 200]]]

\* The serving process after load_data: with the loaded table and no request
\* yet, or with no dataset file (an empty table) once the feedback requests
\* were served.
InitRequests ==
    /\ EstimatorsIdle
    /\ resp = NoResp
    /\ session = NoSuggestion
    /\ chat = NoChat
    /\ \/ df_colleges = LoadedTable /\ feedback = NoFeedback
       \/ df_colleges = <<>> /\ feedback = FeedbackServed
    /\ ScraperIdle

\* Suggest, Predict, Chat and Feedback requests in any interleaving
NextRequests ==
    \/ handle_suggest
    \/ handle_predict
    \/ send_response
    \/ handle_chat
    \/ stream_open
    \/ stream_chunk
    \/ stream_end
    \/ stream_error
    \/ handle_feedback

SpecRequests == InitRequests /\ [][NextRequests]_vars

-----------------------------------------------------------------------------
(* C1: rank_to_percentile lies in [0, 100], is exactly 100 for a rank <= 0,  *)
(* is 0 for a rank beyond the pool, and never rises with the rank: of two    *)
(* calls with the same pool, the one with the smaller rank gives at least    *)
(* the percentile of the other.                                              *)
C1_RankToPercentile ==
    /\ rtp.called =>
          /\ rtp.result \in 0..(100 * Scale)
          /\ rtp.rank <= 0 => rtp.result = 100 * Scale
          /\ rtp.rank > rtp.total => rtp.result = 0
    /\ (rtp.called /\ rtpPrev.called /\ rtp.total = rtpPrev.total) =>
          /\ rtpPrev.rank <= rtp.rank => rtpPrev.result >= rtp.result
          /\ rtp.rank <= rtpPrev.rank => rtp.result >= rtpPrev.result

\* a rank inside the pool followed by a rank beyond it: the percentile falls to 0
C1_Witness ==
    /\ rtp.called /\ rtpPrev.called
    /\ rtp.total = rtpPrev.total
    /\ 0 < rtpPrev.rank /\ rtpPrev.rank < rtp.total /\ rtp.total < rtp.rank
    /\ rtpPrev.result > rtp.result
    /\ rtp.result = 0

LabelRank(l) == CHOOSE i \in 1..Len(Labels) : Labels[i] = l

\* the label of a difference d, by the interval d lies in
LabelOfDifference(d) ==
    CASE d >= 2 * Scale -> "Very High"
      [] 2 * d >= Scale /\ d < 2 * Scale -> "High"
      [] 4 * d >= -3 * Scale /\ 2 * d < Scale -> "Medium (Borderline)"
      [] 2 * d >= -5 * Scale /\ 4 * d < -3 * Scale -> "Low"
      [] 2 * d < -5 * Scale -> "Unlikely"

(* C2: predict_admission_chance returns one of the five labels, the one of   *)
(* the first threshold (2, 0.5, -0.75, -2.5) the difference reaches, and with *)
(* the cutoff fixed a higher user percentile never gets a worse label.       *)
C2_AdmissionChance ==
    /\ pac.called =>
          /\ \E i \in 1..Len(Labels) : Labels[i] = pac.label
          /\ pac.label = LabelOfDifference(pac.user - pac.cutoff)
    /\ (pac.called /\ pacPrev.called /\ pac.cutoff = pacPrev.cutoff
            /\ pacPrev.user <= pac.user) =>
          LabelRank(pacPrev.label) <= LabelRank(pac.label)

\* 90.0 against 96.5 is "Unlikely", and raising the percentile to the
\* cutoff + 0.5 lifts the label to "High"
C2_Witness ==
    /\ pac.called /\ pacPrev.called
    /\ pacPrev.user = 900000 /\ pacPrev.cutoff = 965000
    /\ pacPrev.label = "Unlikely"
    /\ pac.cutoff = 965000 /\ pac.user = 970000
    /\ pac.label = "High"

-----------------------------------------------------------------------------
\* how often the record r occurs in rows
Count(rows, r) == Cardinality({i \in 1..Len(rows) : rows[i] = r})

\* the rows of the table a suggestion may draw on
IsGeneralRow(r) == str_lower(r.category) = "general"

\* whether resp holds the result of suggest_colleges, and then its inputs
IsSuggestion ==
    \/ resp.op = "suggest_colleges"
    \/ resp.op = "suggest" /\ resp.success
SuggestionLimit == IF resp.op = "suggest" THEN DefaultLimit ELSE resp.limit
Suggestion == IF resp.op = "suggest" THEN resp.suggestions ELSE resp.result

\* list is the first `limit` of the General rows that satisfy Eligible, taken
\* in the order Better (cutoff descending or ascending)
IsFirstOf(list, limit, Eligible(_), Better(_, _)) ==
    LET pool == {df_colleges[i] : i \in
                    {j \in 1..Len(df_colleges) :
                        IsGeneralRow(df_colleges[j]) /\ Eligible(df_colleges[j])}}
        n == Cardinality({j \in 1..Len(df_colleges) :
                        IsGeneralRow(df_colleges[j]) /\ Eligible(df_colleges[j])})
    IN  /\ Len(list) = Min(limit, n)
        /\ \A k \in 1..Len(list) :
              /\ list[k] \in pool
              /\ Count(list, list[k]) <= Count(df_colleges, list[k])
        /\ \A k \in 1..(Len(list) - 1) :
              ~Better(list[k + 1].cutoff_percentile, list[k].cutoff_percentile)
        /\ \A r \in pool :
              Count(list, r) < Count(df_colleges, r) =>
                  /\ Len(list) > 0
                  /\ ~Better(r.cutoff_percentile,
                             list[Len(list)].cutoff_percentile)

(* C3: on a non-empty table, suggest_colleges(user_rank) returns              *)
(* u = rank_to_percentile(user_rank) as user_percentile; 'safe' is the first  *)
(* `limit` General rows (any letter case) with cutoff <= u in descending      *)
(* cutoff order, 'ambitious' the first `limit` General rows with cutoff > u   *)
(* in ascending cutoff order; no record is in both lists.                     *)
C3_SuggestColleges ==
    (IsSuggestion /\ df_colleges # <<>>) =>
        LET u == rank_to_percentile(resp.rank, DefaultTotal)
            AtMostU(r) == r.cutoff_percentile <= u
            AboveU(r) == r.cutoff_percentile > u
            Higher(a, b) == a > b
            Lower(a, b) == a < b
        IN  /\ Suggestion.user_percentile = u
            /\ IsFirstOf(Suggestion.safe, SuggestionLimit, AtMostU, Higher)
            /\ IsFirstOf(Suggestion.ambitious, SuggestionLimit, AboveU, Lower)
            /\ \A a \in 1..Len(Suggestion.safe) :
                  \A b \in 1..Len(Suggestion.ambitious) :
                      Suggestion.safe[a] # Suggestion.ambitious[b]

\* the table [VJTI 96.5, CoEP 91.2] and a rank worth 93.0: safe = [CoEP],
\* ambitious = [VJTI]
C3_Witness ==
    /\ resp.op = "suggest_colleges"
    /\ Len(df_colleges) = 2
    /\ df_colleges[1].college = "VJTI" /\ df_colleges[1].cutoff_percentile = 965000
    /\ df_colleges[2].cutoff_percentile = 912000
    /\ resp.result.user_percentile = 930000
    /\ Len(resp.result.safe) = 1 /\ resp.result.safe[1] = df_colleges[2]
    /\ Len(resp.result.ambitious) = 1 /\ resp.result.ambitious[1] = df_colleges[1]

\* two safe rows tie at the user's percentile, one of them General in lower
\* case, and the limit 1 keeps only one of them
C3_WitnessTruncated ==
    /\ resp.op = "suggest_colleges"
    /\ resp.limit = 1
    /\ Len(resp.result.safe) = 1
    /\ resp.result.safe[1].cutoff_percentile = resp.result.user_percentile
    /\ \E i \in 1..Len(df_colleges) :
          /\ df_colleges[i] # resp.result.safe[1]
          /\ df_colleges[i].category = "general"
          /\ df_colleges[i].cutoff_percentile = resp.result.user_percentile

\* the rows whose college name contains the query as a substring, any case
SubstringMatches(q) ==
    {i \in 1..Len(df_colleges) :
        str_in(str_lower(q), str_lower(df_colleges[i].college))}

(* C4: Predict with a positive percentile and a non-empty query, against a   *)
(* loaded table, answers not-found when no college name contains the query   *)
(* as a case-insensitive substring, and otherwise reports a containing       *)
(* record of maximal cutoff with the label of (percentile - that cutoff).    *)
C4_PredictBySubstring ==
    (resp.op = "predict" /\ resp.query # "" /\ resp.percentile > 0
        /\ df_colleges # <<>>) =>
        LET M == SubstringMatches(resp.query)
        IN  IF M = {}
            THEN resp.code = 200 /\ ~resp.success /\ resp.error = "Could not find"
            ELSE /\ resp.success
                 /\ \E i \in M :
                       /\ resp.college = df_colleges[i].college
                       /\ resp.branch = df_colleges[i].branch
                       /\ resp.cutoff_percentile = df_colleges[i].cutoff_percentile
                       /\ \A j \in M : df_colleges[j].cutoff_percentile
                                          <= resp.cutoff_percentile
                 /\ resp.admission_chance =
                       LabelOfDifference(resp.percentile - resp.cutoff_percentile)

-----------------------------------------------------------------------------
\* the records of the input that dropna keeps, with the branch re-classified
Reclassified(data) ==
    {[d EXCEPT !.branch = standardize_branch_name(d.branch)] :
        d \in {data[i] : i \in {j \in 1..Len(data) : Essential \subseteq DOMAIN data[j]}}}

(* C5: the dataset save_data persists holds at most one record per           *)
(* (college, re-classified branch, category), and for every such triple of   *)
(* the input the record kept has the highest cutoff_percentile the input     *)
(* gives that triple.                                                        *)
C5_UniqueHighest ==
    /\ file.kind = "complete" =>
          \A i, j \in 1..Len(file.rows) :
              i # j => ~SameKey(file.rows[i], file.rows[j])
    /\ (pc = "saved" /\ ret = "True") =>
          \A d \in Reclassified(all_data) :
              \E k \in 1..Len(file.rows) :
                  /\ SameKey(file.rows[k], d)
                  /\ file.rows[k].cutoff_percentile >= d.cutoff_percentile
                  /\ file.rows[k] \in Reclassified(all_data)

\* two input records of one triple ("computer science" is re-classified) with
\* cutoffs 96.5 and 97.0, given lowest first: the file keeps the 97.0
C5_Witness ==
    /\ pc = "saved" /\ ret = "True"
    /\ Len(all_data) >= 2
    /\ all_data[1].branch = "Computer Engineering"
    /\ all_data[1].category = "General"
    /\ all_data[2].branch = "computer science"
    /\ Len(file.rows) = 1
    /\ file.rows[1].branch = "Computer Engineering"
    /\ file.rows[1].cutoff_percentile = 970000

\* r is not after q: cutoff descending, then college, then branch ascending
NotAfter(r, q) ==
    \/ r.cutoff_percentile > q.cutoff_percentile
    \/ /\ r.cutoff_percentile = q.cutoff_percentile
       /\ \/ str_lt(r.college, q.college)
          \/ r.college = q.college /\ ~str_lt(q.branch, r.branch)

(* C6: the persisted dataset is ordered by cutoff_percentile descending,     *)
(* then college ascending, then branch ascending: of two consecutive         *)
(* records the earlier is not after the later.                               *)
C6_Ordered ==
    file.kind = "complete" =>
        \A k \in 1..(Len(file.rows) - 1) : NotAfter(file.rows[k], file.rows[k + 1])

\* VJTI handed over before CoEP with the same cutoff: CoEP is written first
C6_Witness ==
    /\ pc = "saved" /\ ret = "True"
    /\ Len(all_data) = 2
    /\ all_data[1].college = "VJTI" /\ all_data[2].college = "CoEP"
    /\ Len(file.rows) = 2
    /\ file.rows[1].college = "CoEP" /\ file.rows[2].college = "VJTI"
    /\ file.rows[1].cutoff_percentile = file.rows[2].cutoff_percentile

\* the records the live sources attempted so far gave, from their responses
RECURSIVE Extracted(_)
Extracted(k) ==
    IF k = 0 THEN <<>>
    ELSE Extracted(k - 1) \o
         (IF attempts[k].response.ok
             /\ ~parse(live_sources[k], attempts[k].response.content).raised
          THEN parse(live_sources[k], attempts[k].response.content).data
          ELSE <<>>)

ScrapeOver == pc = "done" \/ (pc = "scrape" /\ src_i > Len(live_sources))

(* C7: run invokes the fallback generator exactly when the live sources      *)
(* gave no record; a run that invoked it and whose save returned leaves a    *)
(* non-empty file of 'mock_data' records only, and a run that did not        *)
(* leaves no 'mock_data' record in the file it wrote.                        *)
C7_FallbackOnlyWhenEmpty ==
    pc = "done" =>
        /\ mock <=> Extracted(Len(attempts)) = <<>>
        /\ (mock /\ ret = "None") =>
              /\ file.kind = "complete"
              /\ file.rows # <<>>
              /\ \A k \in 1..Len(file.rows) : file.rows[k].source = "mock_data"
        /\ (~mock /\ ret = "None") =>
              /\ file.kind = "complete"
              /\ \A k \in 1..Len(file.rows) : file.rows[k].source # "mock_data"

\* the first source answered with a page that gave no record and the second
\* could not be fetched: the forty mock records were written
C7_Witness ==
    /\ pc = "done" /\ mock /\ ret = "None"
    /\ Len(attempts) = Len(live_sources)
    /\ attempts[1].response.ok /\ ~attempts[2].response.ok
    /\ Len(file.rows) = Len(colleges) * Len(branches)

(* C8: save_data handed an empty sequence returns False and leaves the       *)
(* dataset file as it was: none is created, and the one an earlier run       *)
(* left keeps its content.                                                   *)
C8_EmptyInputKeepsFile ==
    [][(pc = "call" /\ all_data = <<>>) => (ret' = "False" /\ file' = file)]_vars

\* the call with no record was made while the earlier run's file held forty
C8_Witness ==
    /\ pc = "saved"
    /\ all_data = <<>>
    /\ ret = "False"
    /\ file.kind = "complete"
    /\ Len(file.rows) = Len(colleges) * Len(branches)

(* C9: a source whose fetch or parser fails does not stop scrape_live_data:  *)
(* the sources are attempted in list order, all of them by the end, and the  *)
(* sequence returned is, in that order, what each source that was fetched    *)
(* and parsed gave.                                                          *)
C9_BadSourceSkipped ==
    /\ \A k \in 1..Len(attempts) : attempts[k].source = live_sources[k].name
    /\ pc = "scrape" => Len(attempts) = src_i - 1
    /\ ScrapeOver => Len(attempts) = Len(live_sources)
    /\ pc = "scrape" => all_data = Extracted(Len(attempts))
    /\ (pc = "done" /\ ~mock) => all_data = Extracted(Len(attempts))

\* the first source's parser raised, the second source's records are returned
C9_Witness ==
    /\ ScrapeOver
    /\ Len(attempts) = 2
    /\ attempts[1].outcome = "raised"
    /\ attempts[2].outcome = "parsed"
    /\ Len(all_data) = 2
    /\ \A k \in 1..2 : all_data[k].source = live_sources[2].url

\* the page without the tables that have no <tbody>
WithBodies(soup) ==
    [soup EXCEPT !.tables =
        FilterFrom(soup.tables, 1, {i \in 1..Len(soup.tables) : soup.tables[i].tbody})]

(* C10: a parser never raises: on every page it returns the rows of the      *)
(* well-formed tables and leaves out only the row or table that lacks an     *)
(* element.                                                                  *)
C10_ParsersNeverRaise ==
    \A k \in 1..Len(attempts) :
        attempts[k].response.ok =>
            LET soup == attempts[k].response.content
                out == parse(live_sources[k], soup)
            IN  /\ ~out.raised
                /\ out.data = parse(live_sources[k], WithBodies(soup)).data

(* C11: a run never ends by an uncaught error of the write and never       *)
(* leaves a partial dataset file: when open or json.dump fails, run still    *)
(* returns, and the file is absent or holds the complete content an earlier  *)
(* save wrote.                                                               *)
C11_WriteFailureReported ==
    pc = "done" =>
        /\ ret \in {"None", "False"}
        /\ file.kind \in {"absent", "complete"}

\* text that reads as a number: digits with at most a sign and a point
NumberText(x) ==
    LET t == str_strip(x)
    IN  /\ \E i \in 1..Len(t) : IsDigit(Char(t, i))
        /\ \A i \in 1..Len(t) :
              \/ IsDigit(Char(t, i))
              \/ Char(t, i) = "." /\ i > 1
              \/ Char(t, i) \in {"-", "+"} /\ i = 1

\* a rank that is not a number, or a number that is not positive
InvalidRank(raw) ==
    \/ raw.t = "null"
    \/ raw.t = "str" /\ ~NumberText(raw.v)
    \/ raw.t = "str" /\ NumberText(raw.v) /\ Char(str_strip(raw.v), 1) = "-"
    \/ raw.t \in {"int", "float"} /\ raw.v <= 0

PositiveRank(raw) ==
    \/ raw.t = "int" /\ raw.v > 0
    \/ raw.t = "float" /\ raw.v >= Scale

(* C13: POST /suggest with a positive rank while the table is empty answers  *)
(* with a 5xx error, not with a success payload of empty lists.              *)
C13_EmptyTableUnavailable ==
    (resp.op = "suggest" /\ PositiveRank(resp.raw) /\ df_colleges = <<>>) =>
        /\ resp.code >= 500
        /\ ~resp.success

RECURSIVE TextsOf(_, _)
\* the texts of the fragments of one kind, in order
TextsOf(out, kind) ==
    IF out = <<>> THEN <<>>
    ELSE (IF Head(out).kind = kind THEN <<Head(out).text>> ELSE <<>>)
             \o TextsOf(Tail(out), kind)

RECURSIVE UpstreamTexts(_)
\* the non-empty texts the chunks consumed so far carried, in order
UpstreamTexts(consumed) ==
    IF consumed = <<>> THEN <<>>
    ELSE (IF Head(consumed).choices = 1 /\ Head(consumed).content.t = "str"
             /\ Head(consumed).content.v # ""
          THEN <<Head(consumed).content.v>> ELSE <<>>)
             \o UpstreamTexts(Tail(consumed))

(* C14: at every moment of a chat stream the content fragments emitted are   *)
(* exactly the non-empty texts of the upstream chunks consumed so far, one   *)
(* each and in upstream order: none waits for a later chunk, none is added,  *)
(* doubled or reordered.                                                     *)
C14_ForwardedInOrder ==
    chat.pc \in {"streaming", "closed"} =>
        TextsOf(chat.out, "content") = UpstreamTexts(chat.consumed)

\* "Hel", an empty delta and "lo" were consumed and the stream is still open:
\* both texts are already out
C14_Witness ==
    /\ chat.pc = "streaming"
    /\ Len(chat.consumed) = 3
    /\ UpstreamTexts(chat.consumed) = <<"Hel", "lo">>
    /\ chat.consumed[2].content.t \in {"null", "str"}
    /\ chat.consumed[2].content # [t |-> "str", v |-> "lo"]
    /\ chat.out = <<[kind |-> "content", text |-> "Hel"],
                    [kind |-> "content", text |-> "lo"]>>

(* C15: a chat request with a non-empty message that fails (no client, the   *)
(* upstream call failing at creation or mid-stream, or collecting context    *)
(* failing) answers with an event stream whose last fragment is its only     *)
(* error fragment.                                                           *)
C15_FailureInStream ==
    /\ chat.pc \in {"streaming", "closed"} =>
          /\ Len(TextsOf(chat.out, "error")) <= 1
          /\ \A k \in 1..(Len(chat.out) - 1) : chat.out[k].kind = "content"
    /\ (chat.pc = "closed" /\ chat.message # "" /\ chat.failed) =>
          /\ chat.code = 200
          /\ chat.out # <<>>
          /\ chat.out[Len(chat.out)].kind = "error"

(* C16: when load_data fails, for a missing file, invalid JSON or a later   *)
(* step, the process serves with an empty table: a failed load leaves no     *)
(* rows behind.                                                              *)
C16_FailedLoadLeavesEmpty ==
    (pc = "serving" /\ ret = "False") => df_colleges = <<>>

(* C17: every record of the persisted dataset has a college and a branch    *)
(* that are not the empty string.                                            *)
C17_NamesNotEmpty ==
    file.kind = "complete" =>
        \A k \in 1..Len(file.rows) :
            file.rows[k].college # "" /\ file.rows[k].branch # ""

(* C18: every record of the persisted dataset has a cutoff_percentile        *)
(* between 0 and 100.                                                        *)
C18_CutoffInRange ==
    file.kind = "complete" =>
        \A k \in 1..Len(file.rows) :
            /\ file.rows[k].cutoff_percentile >= 0
            /\ file.rows[k].cutoff_percentile <= 100 * Scale

(* C19: what save_data persists depends on the multiset of its input only:   *)
(* the same records handed over in any other order, under any tie order of   *)
(* the sort, give the same file.                                             *)
C19_OrderIndependent ==
    (pc = "saved" /\ ret = "True") =>
        \A perm \in Perms(Len(all_data)) :
            \A prio \in TieOrders(Len(dropna(all_data))) :
                save_data([i \in 1..Len(all_data) |-> all_data[perm[i]]],
                          prio, "ok", NoFile).file.rows = file.rows

\* the rules in their priority order: what each looks for in the lower-cased
\* text, and the label it gives
RuleLabels ==
    <<"Computer Engineering", "Information Technology",
      "Electronics and Telecommunication Engineering", "Mechanical Engineering",
      "Civil Engineering", "Electrical Engineering">>

RuleMatches(k, text) ==
    LET low == str_lower(text)
    IN  CASE k = 1 -> str_in("computer", low)
          [] k = 2 -> str_in("information technology", low) \/ str_in("it", low)
          [] k = 3 -> str_in("electronics", low) /\ str_in("telecommunication", low)
          [] k = 4 -> str_in("mechanical", low)
          [] k = 5 -> str_in("civil", low)
          [] k = 6 -> str_in("electrical", low)

(* C20: _standardize_branch_name gives the label of the first rule, in the   *)
(* order computer, information technology/'it', electronics with             *)
(* telecommunication, mechanical, civil, electrical, that matches the text   *)
(* without regard to case, and the title-cased text when none matches;       *)
(* classifying the result again gives it back, each of the six labels maps   *)
(* to itself, and every branch of the persisted dataset is a fixed point.    *)
C20_FirstRuleWins ==
    /\ std.called =>
          LET hits == {k \in 1..Len(RuleLabels) : RuleMatches(k, std.branch)}
          IN  /\ hits # {} =>
                    std.label = RuleLabels[CHOOSE k \in hits : \A h \in hits : k <= h]
              /\ hits = {} => std.label = str_title(std.branch)
              /\ std.again = std.label
    /\ \A k \in 1..Len(RuleLabels) :
          standardize_branch_name(RuleLabels[k]) = RuleLabels[k]
    /\ file.kind = "complete" =>
          \A k \in 1..Len(file.rows) :
              standardize_branch_name(file.rows[k].branch) = file.rows[k].branch

\* "ELECTRICAL COMPUTER" matches the first and the last rule and gets the
\* first one's label, while the file holds a record handed over as
\* "computer science" under the label Computer Engineering
C20_Witness ==
    /\ std.called
    /\ std.branch = "ELECTRICAL COMPUTER"
    /\ std.label = "Computer Engineering"
    /\ std.again = "Computer Engineering"
    /\ pc = "saved" /\ ret = "True"
    /\ all_data[1].branch = "computer science"
    /\ file.rows[1].branch = "Computer Engineering"

\* a text no rule matches comes back in title case, and stays
C20_WitnessTitle ==
    /\ std.called
    /\ std.branch = "DESIGN UNKNOWN"
    /\ std.label = "Design Unknown"
    /\ std.again = std.label

\* the rows a parser looks at: those of the tables it reads, in page order
RECURSIVE RowsOf(_, _)
RowsOf(tables, i) ==
    IF i > Len(tables) THEN <<>>
    ELSE tables[i].rows \o RowsOf(tables, i + 1)

\* a row with a cutoff cell to read: two cells at least, and for CollegeDunia
\* a link in the first
HasCutoffCell(source, cols) ==
    /\ Len(cols) >= 2
    /\ source.name = "CollegeDunia" => cols[1].a

RECURSIVE NumericTokens(_, _, _)
\* the numeric token, decimal or integer, of each such row that holds one
NumericTokens(source, rows, i) ==
    IF i > Len(rows) THEN <<>>
    ELSE LET cols == rows[i]
             token == IF HasCutoffCell(source, cols)
                      THEN search_number(str_strip(cols[2].text))
                      ELSE [found |-> FALSE]
         IN  (IF token.found THEN <<token.value>> ELSE <<>>)
                 \o NumericTokens(source, rows, i + 1)

(* C22: a parser includes a row exactly when its cutoff cell holds a numeric *)
(* token, decimal or integer, and stores that token: on every page a parser  *)
(* reads without raising, the cutoffs of its records are, in row order, the  *)
(* numeric tokens of the rows that have a cutoff cell, '99' as well as       *)
(* '99.5', for both parsers.                                                 *)
C22_IntegerCutoffAccepted ==
    \A k \in 1..Len(attempts) :
        attempts[k].outcome = "parsed" =>
            LET soup == attempts[k].response.content
                data == parse(live_sources[k], soup).data
            IN  [i \in 1..Len(data) |-> data[i].cutoff_percentile]
                    = NumericTokens(live_sources[k], RowsOf(soup.tables, 1), 1)

\* the roster by position: colleges 1..3 are the elite tier, 4..6 the middle
\* one; branch bonuses in tenths of a point
TierOf(c) == IF c <= 3 THEN 96 ELSE IF c <= 6 THEN 92 ELSE 85
BonusTenths(b) == IF b = 1 THEN 35 ELSE IF b = 2 THEN 30 ELSE IF b = 3 THEN 15 ELSE 0
CollegeAt(k) == ((k - 1) \div Len(branches)) + 1
BranchAt(k) == ((k - 1) % Len(branches)) + 1

\* tier base plus branch bonus minus the draw, clamped to [85.0, 99.9], in
\* units of 1/(Scale * Fine)
ClampedBase(seed, k) ==
    LET exact == TierOf(CollegeAt(k)) * Scale * Fine
                     + BonusTenths(BranchAt(k)) * ((Scale * Fine) \div 10)
                     - uniform(seed, k)
    IN  Max(85 * Scale * Fine, Min((999 * Scale * Fine) \div 10, exact))

\* the forty records of the roster, one for each pair, in roster order
RosterRecords ==
    /\ Len(all_data) = Len(colleges) * Len(branches)
    /\ \A c \in 1..Len(colleges), b \in 1..Len(branches) :
          Cardinality({k \in 1..Len(all_data) :
              /\ all_data[k].college = colleges[c]
              /\ all_data[k].branch = branches[b]}) = 1
    /\ \A k \in 1..Len(all_data) :
          /\ all_data[k].college = colleges[CollegeAt(k)]
          /\ all_data[k].branch = branches[BranchAt(k)]
          /\ all_data[k].category = "General"
          /\ all_data[k].source = "mock_data"

(* C23, with the rounding the generator applies: generate_mock_data yields   *)
(* exactly one record for every (college, branch) pair of its roster, each   *)
(* with category 'General' and source 'mock_data', and for the draws of the  *)
(* generation each cutoff_percentile is tier base plus branch bonus minus    *)
(* the draw, clamped to [85.0, 99.9] and then rounded to 4 decimals.         *)
C23_MockCutoffsRounded ==
    (pc = "done" /\ mock) =>
        /\ RosterRecords
        /\ \E seed \in Seeds :
              \A k \in 1..Len(all_data) :
                  all_data[k].cutoff_percentile =
                      Round4(ClampedBase(seed, k), Scale * Fine)

\* a generation whose first record was rounded down (99.14283 to 99.1428),
\* whose second was rounded up (98.28577 to 98.2858) and whose last was
\* clamped to 85.0
C23_Witness ==
    /\ pc = "done" /\ mock
    /\ RosterRecords
    /\ all_data[1].cutoff_percentile = 991428
    /\ all_data[1].cutoff_percentile * Fine < ClampedBase(2, 1)
    /\ all_data[2].cutoff_percentile = 982858
    /\ all_data[2].cutoff_percentile * Fine > ClampedBase(2, 2)
    /\ all_data[Len(all_data)].cutoff_percentile = 85 * Scale

(* C23 as stated: each cutoff_percentile equals tier base plus branch bonus  *)
(* minus the draw, clamped to [85.0, 99.9], with no rounding.                *)
C23_MockCutoffsExact ==
    (pc = "done" /\ mock) =>
        /\ RosterRecords
        /\ \E seed \in Seeds :
              \A k \in 1..Len(all_data) :
                  all_data[k].cutoff_percentile * Fine = ClampedBase(seed, k)

\* s is the beginning of t
IsPrefix(s, t) == Len(s) <= Len(t) /\ SubSeq(t, 1, Len(s)) = s

\* the rows of the log that are header rows
HeaderRows == {k \in 1..Len(feedback.log) : feedback.log[k] = Header}

(* C24: after any sequence of Feedback requests, concurrent ones while the   *)
(* log does not yet exist included, a log that has rows has exactly one      *)
(* header row and it is the first row, each acknowledged request has         *)
(* exactly one data row in the log, and no step alters or removes a row      *)
(* written earlier.                                                          *)
C24_OneHeaderFirst ==
    /\ [](/\ feedback.log # <<>> => HeaderRows = {1}
          /\ \A i \in 1..MaxFeedback :
                feedback.req[i].pc = "acknowledged" =>
                    Cardinality({k \in 1..Len(feedback.log) :
                                    feedback.log[k] = Row(i)}) = 1)
    /\ [][IsPrefix(feedback.log, feedback'.log)]_vars

=============================================================================
